---- MODULE Spec2Model ----
(***************************************************************************)
(* Model of the rusty_spoon runtime: the effect algebra Cmd, the Resource  *)
(* wrapper, the driver loop Host::run_automat (src/src/elm.rs), the        *)
(* terminal backend Screen (src/src/tui.rs) and main (src/src/main.rs).    *)
(*                                                                         *)
(* The Application is a type parameter of run_automat.  It is modelled as  *)
(* the application that records every message given to update in its      *)
(* model, and whose update may return any effect built with the public     *)
(* constructors of Cmd.  The Editor of main.rs is modelled at the end, by  *)
(* its navigation and its key history.                                     *)
(***************************************************************************)
EXTENDS Naturals, Sequences, FiniteSets

VARIABLES
    pc,         \* position of main: "attach", "raw", "init", "view", "commit", "interp", "exited"
    model,      \* the Application's model: the messages update was given (all, or the
                \* last), or the Editor's navigation and key history
    cmd,        \* run_automat's current effect
    cmd_stack,  \* run_automat's continuation stack (the end of the sequence is the top)
    result,     \* what main returns
    raw_mode,   \* whether the terminal is in raw mode
    calls,      \* how often the current loop iteration has called each boundary
    raw_calls,  \* how often enable_raw_mode and disable_raw_mode have been called
    renders,    \* successful calls of view so far, counted up to MaxRenders
    last,       \* the step taken last, what the world answered it, the message it gave to update
    agenda,     \* the leaves still to interpret, in the order the sequences intend
    chain,      \* the leaves of the initial effect, in the order they were chained
                \* (recorded in the runs that drain a chain, <<>> in the others)
    twin        \* in the runs that compare two initial effects: the effects, the
                \* update function, and where the first of the two runs ended

vars == <<pc, model, cmd, cmd_stack, result, raw_mode, calls, raw_calls, renders,
          last, agenda, chain, twin>>

(***************************************************************************)
(* Bounds of the model.                                                    *)
(***************************************************************************)
MaxPending  == 3   \* leaves waiting to be interpreted
MaxRenders  == 3   \* renders counts the calls of view up to this number

(***************************************************************************)
(* Messages, events, io::Error and io::Result.                             *)
(***************************************************************************)
Tags      == {"M2", "M3"}
TaggedMsg(t) == [tag |-> "Tagged", id |-> t]
Events    == {"Key", "Resize"}
Values    == {"v1"}

IoError(kind, text) == [kind |-> kind, text |-> text]
IoErrors  == {IoError("NotFound", "entity not found")}

Ok(v)     == [ok |-> TRUE, val |-> v]
Err(e)    == [ok |-> FALSE, err |-> e]
Unit      == "()"

NoMsg     == [tag |-> "NoMsg"]
NoResult  == [ok |-> TRUE, val |-> "pending"]

\* io::Error's Display: a custom error prints its text.
ToString(e) == e.text

(***************************************************************************)
(* enum Cmd and its constructors.                                          *)
(***************************************************************************)
none == [type |-> "None"]

suspend(effect) == [type |-> "Suspend", effect |-> effect]

dispatch(message) == [type |-> "Dispatch", msg |-> message]

and_then_reversed(self, then) == [type |-> "AndThen", this |-> self, that |-> then]

and_then(self, then) == [type |-> "AndThen", this |-> then, that |-> self]

gtfo == [type |-> "Gtfo"]

(***************************************************************************)
(* enum Resource and Resource::fetch.  A one-shot computation is a record: *)
(* a raw one yields what the world gives it, a fetch-wrapped one turns     *)
(* what the world gives the wrapped computation into a message.            *)
(***************************************************************************)
Present(a) == [state |-> "Present", value |-> a]
Failed(s)  == [state |-> "Failed", desc |-> s]

\* as_msg: the application's constructor of a message from a Resource.
AsMsg(as_msg, resource) == [tag |-> as_msg, res |-> resource]

RawEffect   == [kind |-> "raw"]
FetchEffect(as_msg) == [kind |-> "fetch", as_msg |-> as_msg]

fetch(as_msg) == suspend(FetchEffect(as_msg))

\* What the world can give a computation when it runs.
RawOutcomes   == {Ok(TaggedMsg("M1"))} \cup {Err(e) : e \in IoErrors}
FetchOutcomes == {Ok(v) : v \in Values} \cup {Err(e) : e \in IoErrors}
Outcomes(effect) == IF effect.kind = "raw" THEN RawOutcomes ELSE FetchOutcomes

FetchBodyPropagates(as_msg, r) ==
    IF r.ok THEN Ok(AsMsg(as_msg, Present(r.val))) ELSE Err(r.err)

\* The closure fetch builds, applied to what the wrapped computation gave.
FetchBody(as_msg, r) ==
    IF r.ok THEN Ok(AsMsg(as_msg, Present(r.val)))
            ELSE Ok(AsMsg(as_msg, Failed(ToString(r.err))))

\* effect(): the io::Result<Msg> of a one-shot computation.
Invoke(effect, r) ==
    IF effect.kind = "raw" THEN r ELSE FetchBody(effect.as_msg, r)

(***************************************************************************)
(* impl Host for Screen (tui.rs) and Message::from (main.rs).              *)
(***************************************************************************)
TimedOut == IoError("TimedOut", "Timed out waiting for the world.")

\* What the terminal can answer to event::poll and to event::read.
Worlds == {[poll |-> Ok(TRUE), read |-> r] : r \in {Ok(ev) : ev \in Events} \cup {Err(e) : e \in IoErrors}}
          \cup {[poll |-> Ok(FALSE), read |-> Err(e)] : e \in IoErrors}
          \cup {[poll |-> Err(e), read |-> Err(e)] : e \in IoErrors}

poll_events_tick(world) ==
    IF ~world.poll.ok THEN Err(world.poll.err)
    ELSE IF world.poll.val THEN world.read
    ELSE Ok("Resize")

poll_events(world) ==
    IF ~world.poll.ok THEN Err(world.poll.err)
    ELSE IF world.poll.val THEN world.read
    ELSE Err(TimedOut)

MsgFromDropsEvent(event) == [tag |-> "ExternalEvent", event |-> "Key"]

\* impl From<event::Event> for Message
MsgFrom(event) == [tag |-> "ExternalEvent", event |-> event]

(***************************************************************************)
(* The effects an application can build: every bracketing of a chain of    *)
(* leaves by and_then.                                                     *)
(***************************************************************************)
Leaves == {none, gtfo, suspend(RawEffect), fetch("Fetched")}
          \cup {dispatch(TaggedMsg(t)) : t \in Tags}

ChainsOver(L, n) == UNION {[1..k -> L] : k \in 1..n}

RECURSIVE Brackets(_)
Brackets(s) ==
    IF Len(s) = 1 THEN {s[1]}
    ELSE UNION {{and_then(a, b) : a \in Brackets(SubSeq(s, 1, i)),
                                  b \in Brackets(SubSeq(s, i + 1, Len(s)))}
                : i \in 1..(Len(s) - 1)}

\* The effects built from the chains of Chains, each with its chain, by the
\* number of leaves they may have at most.
Effects(Chains) ==
    [n \in 0..MaxPending |->
        UNION {{<<s, c>> : c \in Brackets(s)} : s \in {t \in Chains : Len(t) <= n}}]

\* What init and update may return: any effect, or none() alone.
AnyEffect  == Effects(ChainsOver(Leaves, MaxPending))
EmptyOnly  == Effects({<<none>>})

(***************************************************************************)
(* Drop for Screen and the ways main ends.                                 *)
(***************************************************************************)
Bump(c, f) == [c EXCEPT ![f] = @ + 1]

NoCalls == [view |-> 0, commit |-> 0, update |-> 0, poll |-> 0, invoke |-> 0]

DisableOutcomes == {Ok(Unit)} \cup {Err(e) : e \in IoErrors}

DropLeaks(rc, d) ==
    /\ raw_calls' = rc
    /\ UNCHANGED raw_mode

DropTwice(rc, d) ==
    /\ raw_calls' = Bump(Bump(rc, "disable"), "disable")
    /\ raw_mode' = IF d.ok THEN FALSE ELSE raw_mode

\* terminal::disable_raw_mode().expect("Unable!")
Drop(rc, d) ==
    /\ raw_calls' = Bump(rc, "disable")
    /\ raw_mode' = IF d.ok THEN FALSE ELSE raw_mode

ReturnSwallows(res, rc) ==
    /\ pc' = "exited"
    /\ result' = Ok(Unit)
    /\ \E d \in DisableOutcomes : Drop(rc, d)

\* main returns res; the Screen it holds is dropped.
Return(res, rc) ==
    /\ pc' = "exited"
    /\ result' = res
    /\ \E d \in DisableOutcomes : Drop(rc, d)

\* The failures a run is exposed to: an io::Result is admitted when it is Ok or
\* its error is one of Errors.
Admits(r, Errors) == IF r.ok THEN TRUE ELSE r.err \in Errors

Results(Errors) == {Ok(Unit)} \cup {Err(e) : e \in Errors}

Step(name, env, msg) == [step |-> name, env |-> env, msg |-> msg]

\* No second run to compare with.
NoTwin == [phase |-> 0]

(***************************************************************************)
(* main: Screen::attach, Screen::enter_raw_mode.                           *)
(***************************************************************************)
Init ==
    /\ pc = "attach"
    /\ model = <<>>
    /\ cmd = none
    /\ cmd_stack = <<>>
    /\ result = NoResult
    /\ raw_mode = FALSE
    /\ calls = NoCalls
    /\ raw_calls = [enable |-> 0, disable |-> 0]
    /\ renders = 0
    /\ last = Step("start", Ok(Unit), NoMsg)
    /\ agenda = <<>>
    /\ chain = <<>>
    /\ twin = NoTwin

\* Screen::attach: terminal::size()? ; no Screen exists when it fails.
Attach(Errors) ==
    /\ pc = "attach"
    /\ \E size \in Results(Errors) :
        /\ last' = Step("attach", size, NoMsg)
        /\ IF size.ok
             THEN pc' = "raw" /\ UNCHANGED result
             ELSE pc' = "exited" /\ result' = size
    /\ UNCHANGED <<twin, model, cmd, cmd_stack, raw_mode, calls, raw_calls, renders, agenda, chain>>

\* Screen::enter_raw_mode: terminal::enable_raw_mode()? ; self is dropped when it fails.
EnterRawMode(Errors) ==
    /\ pc = "raw"
    /\ \E enabled \in Results(Errors) :
        /\ last' = Step("enter_raw_mode", enabled, NoMsg)
        /\ IF enabled.ok
             THEN /\ pc' = "init"
                  /\ raw_mode' = TRUE
                  /\ raw_calls' = Bump(raw_calls, "enable")
                  /\ UNCHANGED result
             ELSE Return(enabled, Bump(raw_calls, "enable"))
    /\ UNCHANGED <<twin, model, cmd, cmd_stack, calls, renders, agenda, chain>>

(***************************************************************************)
(* Host::run_automat.                                                      *)
(***************************************************************************)
\* let (mut model, mut cmd) = App::init(); let mut cmd_stack = vec![];
AppInit(Returns, remember) ==
    /\ pc = "init"
    /\ \E e \in Returns[MaxPending] :
        /\ cmd' = e[2]
        /\ chain' = IF remember THEN e[1] ELSE <<>>
        /\ agenda' = e[1]
    /\ model' = <<>>
    /\ cmd_stack' = <<>>
    /\ pc' = "view"
    /\ last' = Step("init", Ok(Unit), NoMsg)
    /\ UNCHANGED <<twin, result, raw_mode, calls, raw_calls, renders>>

ViewContinues(Errors) ==
    /\ pc = "view"
    /\ calls' = Bump(NoCalls, "view")
    /\ \E r \in Results(Errors) :
        /\ last' = Step("view", r, NoMsg)
        /\ pc' = "commit"
        /\ renders' = IF renders < MaxRenders THEN renders + 1 ELSE renders
    /\ UNCHANGED <<twin, model, cmd, cmd_stack, result, raw_mode, raw_calls, agenda, chain>>

\* model.view(&screen)?
View(Errors) ==
    /\ pc = "view"
    /\ calls' = Bump(NoCalls, "view")
    /\ \E r \in Results(Errors) :
        /\ last' = Step("view", r, NoMsg)
        /\ IF r.ok
             THEN /\ pc' = "commit"
                  /\ renders' = IF renders < MaxRenders THEN renders + 1 ELSE renders
                  /\ UNCHANGED <<twin, result, raw_mode, raw_calls>>
             ELSE /\ Return(r, raw_calls)
                  /\ UNCHANGED renders
    /\ UNCHANGED <<twin, model, cmd, cmd_stack, agenda, chain>>

\* self.commit_screen_buffer(&screen)?
Commit(Errors) ==
    /\ pc = "commit"
    /\ calls' = Bump(calls, "commit")
    /\ \E r \in Results(Errors) :
        /\ last' = Step("commit", r, NoMsg)
        /\ IF r.ok
             THEN pc' = "interp" /\ UNCHANGED <<twin, result, raw_mode, raw_calls>>
             ELSE Return(r, raw_calls)
    /\ UNCHANGED <<twin, model, cmd, cmd_stack, renders, agenda, chain>>

\* The application's model: every message update was given (keep), or the last one.
Record(m, msg, keep) == IF keep THEN Append(m, msg) ELSE <<msg>>

\* cmd = model.update(&msg): the application records msg and returns an effect.
\* An application that keeps every message is followed for MaxPending + 1 messages.
Update(msg, Returns, rest, keep) ==
    /\ keep => Len(model) <= MaxPending
    /\ model' = Record(model, msg, keep)
    /\ Len(rest) < MaxPending
    /\ \E e \in Returns[MaxPending - Len(rest)] :
        /\ cmd' = e[2]
        /\ agenda' = e[1] \o rest
    /\ pc' = "view"

Rest(s) == IF s = <<>> THEN <<>> ELSE Tail(s)

InterpSuspendSwallows(Returns, Errors, keep) ==
    /\ pc = "interp"
    /\ cmd.type = "Suspend"
    /\ \E w \in {o \in Outcomes(cmd.effect) : Admits(o, Errors)} :
        LET r == Invoke(cmd.effect, w) IN
        IF r.ok
          THEN /\ Update(r.val, Returns, Rest(agenda), keep)
               /\ last' = Step("suspend", w, r.val)
               /\ calls' = Bump(Bump(calls, "invoke"), "update")
               /\ UNCHANGED <<twin, cmd_stack, result, raw_mode, raw_calls, renders, chain>>
          ELSE /\ cmd' = none
               /\ agenda' = <<none>> \o Rest(agenda)
               /\ pc' = "view"
               /\ last' = Step("suspend", w, NoMsg)
               /\ calls' = Bump(calls, "invoke")
               /\ UNCHANGED <<twin, model, cmd_stack, result, raw_mode, raw_calls, renders, chain>>

InterpSuspendRequeues(Returns, Errors, keep) ==
    /\ pc = "interp"
    /\ cmd.type = "Suspend"
    /\ \E w \in {o \in Outcomes(cmd.effect) : Admits(o, Errors)} :
        LET r == Invoke(cmd.effect, w) IN
        IF r.ok
          THEN /\ Update(r.val, Returns, Rest(agenda), keep)
               /\ cmd_stack' = Append(cmd_stack, cmd)
               /\ last' = Step("suspend", w, r.val)
               /\ calls' = Bump(Bump(calls, "invoke"), "update")
               /\ UNCHANGED <<twin, result, raw_mode, raw_calls, renders, chain>>
          ELSE /\ Return(r, raw_calls)
               /\ last' = Step("suspend", w, NoMsg)
               /\ calls' = Bump(calls, "invoke")
               /\ UNCHANGED <<twin, model, cmd, cmd_stack, renders, agenda, chain>>

\* Cmd::Suspend(effect) => model.update(&effect()?)
InterpSuspend(Returns, Errors, keep) ==
    /\ pc = "interp"
    /\ cmd.type = "Suspend"
    /\ \E w \in {o \in Outcomes(cmd.effect) : Admits(o, Errors)} :
        LET r == Invoke(cmd.effect, w) IN
        IF r.ok
          THEN /\ Update(r.val, Returns, Rest(agenda), keep)
               /\ last' = Step("suspend", w, r.val)
               /\ calls' = Bump(Bump(calls, "invoke"), "update")
               /\ UNCHANGED <<twin, cmd_stack, result, raw_mode, raw_calls, renders, chain>>
          ELSE /\ Return(r, raw_calls)
               /\ last' = Step("suspend", w, NoMsg)
               /\ calls' = Bump(calls, "invoke")
               /\ UNCHANGED <<twin, model, cmd, cmd_stack, renders, agenda, chain>>

\* Cmd::Dispatch(msg) => model.update(&msg)
InterpDispatch(Returns, keep) ==
    /\ pc = "interp"
    /\ cmd.type = "Dispatch"
    /\ Update(cmd.msg, Returns, Rest(agenda), keep)
    /\ last' = Step("dispatch", Ok(Unit), cmd.msg)
    /\ calls' = Bump(calls, "update")
    /\ UNCHANGED <<twin, cmd_stack, result, raw_mode, raw_calls, renders, chain>>

InterpGtfoDrains ==
    /\ pc = "interp"
    /\ cmd.type = "Gtfo"
    /\ IF cmd_stack = <<>>
         THEN /\ Return(Ok(Unit), raw_calls)
              /\ last' = Step("gtfo", Ok(Unit), NoMsg)
              /\ UNCHANGED <<twin, model, cmd, cmd_stack, calls, renders, agenda, chain>>
         ELSE /\ cmd' = cmd_stack[Len(cmd_stack)]
              /\ cmd_stack' = SubSeq(cmd_stack, 1, Len(cmd_stack) - 1)
              /\ pc' = "view"
              /\ last' = Step("pop", Ok(Unit), NoMsg)
              /\ agenda' = Rest(agenda)
              /\ UNCHANGED <<twin, model, result, raw_mode, calls, raw_calls, renders, chain>>

\* Cmd::Gtfo => break Ok(())
InterpGtfo ==
    /\ pc = "interp"
    /\ cmd.type = "Gtfo"
    /\ Return(Ok(Unit), raw_calls)
    /\ last' = Step("gtfo", Ok(Unit), NoMsg)
    /\ UNCHANGED <<twin, model, cmd, cmd_stack, calls, renders, agenda, chain>>

InterpAndThenSwapped ==
    /\ pc = "interp"
    /\ cmd.type = "AndThen"
    /\ cmd_stack' = Append(cmd_stack, cmd.that)
    /\ cmd' = cmd.this
    /\ pc' = "view"
    /\ last' = Step("and_then", Ok(Unit), NoMsg)
    /\ UNCHANGED <<twin, model, result, raw_mode, calls, raw_calls, renders, agenda, chain>>

InterpAndThenNoRender ==
    /\ pc = "interp"
    /\ cmd.type = "AndThen"
    /\ cmd_stack' = Append(cmd_stack, cmd.this)
    /\ cmd' = cmd.that
    /\ pc' = "interp"
    /\ last' = Step("and_then", Ok(Unit), NoMsg)
    /\ UNCHANGED <<twin, model, result, raw_mode, calls, raw_calls, renders, agenda, chain>>

\* Cmd::AndThen(this, that) => { cmd_stack.push(this); *that }
InterpAndThen ==
    /\ pc = "interp"
    /\ cmd.type = "AndThen"
    /\ cmd_stack' = Append(cmd_stack, cmd.this)
    /\ cmd' = cmd.that
    /\ pc' = "view"
    /\ last' = Step("and_then", Ok(Unit), NoMsg)
    /\ UNCHANGED <<twin, model, result, raw_mode, calls, raw_calls, renders, agenda, chain>>

InterpNonePopFifo ==
    /\ pc = "interp"
    /\ cmd.type = "None"
    /\ cmd_stack # <<>>
    /\ cmd' = cmd_stack[1]
    /\ cmd_stack' = Tail(cmd_stack)
    /\ pc' = "view"
    /\ last' = Step("pop", Ok(Unit), NoMsg)
    /\ agenda' = Rest(agenda)
    /\ UNCHANGED <<twin, model, result, raw_mode, calls, raw_calls, renders, chain>>

InterpNonePopClears ==
    /\ pc = "interp"
    /\ cmd.type = "None"
    /\ cmd_stack # <<>>
    /\ cmd' = cmd_stack[Len(cmd_stack)]
    /\ cmd_stack' = <<>>
    /\ pc' = "view"
    /\ last' = Step("pop", Ok(Unit), NoMsg)
    /\ agenda' = Rest(agenda)
    /\ UNCHANGED <<twin, model, result, raw_mode, calls, raw_calls, renders, chain>>

InterpNonePopKeeps ==
    /\ pc = "interp"
    /\ cmd.type = "None"
    /\ cmd_stack # <<>>
    /\ cmd' = cmd_stack[Len(cmd_stack)]
    /\ pc' = "view"
    /\ last' = Step("pop", Ok(Unit), NoMsg)
    /\ agenda' = Rest(agenda)
    /\ UNCHANGED <<twin, model, cmd_stack, result, raw_mode, calls, raw_calls, renders, chain>>

\* Cmd::None => if let Some(cmd) = cmd_stack.pop() { *cmd }
InterpNonePop ==
    /\ pc = "interp"
    /\ cmd.type = "None"
    /\ cmd_stack # <<>>
    /\ cmd' = cmd_stack[Len(cmd_stack)]
    /\ cmd_stack' = SubSeq(cmd_stack, 1, Len(cmd_stack) - 1)
    /\ pc' = "view"
    /\ last' = Step("pop", Ok(Unit), NoMsg)
    /\ agenda' = Rest(agenda)
    /\ UNCHANGED <<twin, model, result, raw_mode, calls, raw_calls, renders, chain>>

InterpNonePollEager(Returns, Errors, keep) ==
    /\ pc = "interp"
    /\ cmd.type = "None"
    /\ \E w \in Worlds :
        LET r == poll_events(w) IN
        /\ Admits(r, Errors)
        /\ IF r.ok
             THEN /\ Update(MsgFrom(r.val), Returns, Rest(agenda), keep)
                  /\ last' = Step("poll", w, MsgFrom(r.val))
                  /\ calls' = Bump(Bump(calls, "poll"), "update")
                  /\ UNCHANGED <<twin, cmd_stack, result, raw_mode, raw_calls, renders, chain>>
             ELSE /\ Return(r, raw_calls)
                  /\ last' = Step("poll", w, NoMsg)
                  /\ calls' = Bump(calls, "poll")
                  /\ UNCHANGED <<twin, model, cmd, cmd_stack, renders, agenda, chain>>

\* Cmd::None => else { model.update(&self.poll_events().map(&App::Msg::from)?) }
InterpNonePoll(Returns, Errors, keep) ==
    /\ pc = "interp"
    /\ cmd.type = "None"
    /\ cmd_stack = <<>>
    /\ \E w \in Worlds :
        LET r == poll_events(w) IN
        /\ Admits(r, Errors)
        /\ IF r.ok
             THEN /\ Update(MsgFrom(r.val), Returns, Rest(agenda), keep)
                  /\ last' = Step("poll", w, MsgFrom(r.val))
                  /\ calls' = Bump(Bump(calls, "poll"), "update")
                  /\ UNCHANGED <<twin, cmd_stack, result, raw_mode, raw_calls, renders, chain>>
             ELSE /\ Return(r, raw_calls)
                  /\ last' = Step("poll", w, NoMsg)
                  /\ calls' = Bump(calls, "poll")
                  /\ UNCHANGED <<twin, model, cmd, cmd_stack, renders, agenda, chain>>

AllErrors == IoErrors \cup {TimedOut}

Next ==
    \/ Attach(IoErrors)
    \/ EnterRawMode(IoErrors)
    \/ AppInit(AnyEffect, FALSE)
    \/ View(IoErrors)
    \/ Commit(IoErrors)
    \/ InterpSuspend(AnyEffect, IoErrors, FALSE)
    \/ InterpDispatch(AnyEffect, FALSE)
    \/ InterpGtfo
    \/ InterpAndThen
    \/ InterpNonePop
    \/ InterpNonePoll(AnyEffect, AllErrors, FALSE)

Spec == Init /\ [][Next]_vars

(***************************************************************************)
(* The runs that drain: nothing fails, update returns none() alone, and    *)
(* the application keeps every message.  The loop is the only thread, so   *)
(* it takes its next step whenever it has one.                             *)
(***************************************************************************)
NextDrain ==
    \/ Attach({})
    \/ EnterRawMode({})
    \/ AppInit(AnyEffect, TRUE)
    \/ View({})
    \/ Commit({})
    \/ InterpSuspend(EmptyOnly, {}, TRUE)
    \/ InterpDispatch(EmptyOnly, TRUE)
    \/ InterpGtfo
    \/ InterpAndThen
    \/ InterpNonePop
    \/ InterpNonePoll(EmptyOnly, {}, TRUE)

SpecDrain == Init /\ [][NextDrain]_vars /\ WF_vars(NextDrain)

(***************************************************************************)
(* Properties.                                                             *)
(***************************************************************************)
Running == pc \in {"view", "commit", "interp"}

\* The exits of the loop: the steps that can end run_automat.
LoopEnded == pc = "exited" /\ last.step \in {"view", "commit", "suspend", "gtfo", "poll"}

\* The leaves of an effect and of the continuation stack in the order the
\* interpreter reaches them: of AndThen(this, that), that comes first.
RECURSIVE Flat(_)
Flat(c) == IF c.type = "AndThen" THEN Flat(c.that) \o Flat(c.this) ELSE <<c>>

RECURSIVE FlatStack(_)
FlatStack(st) ==
    IF st = <<>> THEN <<>>
    ELSE Flat(st[Len(st)]) \o FlatStack(SubSeq(st, 1, Len(st) - 1))

AllDispatch(s) == s # <<>> /\ \A i \in 1..Len(s) : s[i].type = "Dispatch"
MsgsOf(s) == [i \in 1..Len(s) |-> s[i].msg]
Prefix(s, n) == SubSeq(s, 1, IF n < Len(s) THEN n ELSE Len(s))

\* C1: in a run where nothing fails and every update returns none(), the
\* messages of a chain of Dispatch effects reach update in the order in which
\* the effects were chained, whatever the nesting of the and_then calls, and
\* before any message of an external event.
C1_ChainOrder ==
    AllDispatch(chain) =>
        Prefix(model, Len(chain)) = Prefix(MsgsOf(chain), Len(model))

C1_Witness ==
    /\ chain = <<dispatch(TaggedMsg("M2")), dispatch(TaggedMsg("M3")), dispatch(TaggedMsg("M3"))>>
    /\ cmd_stack = <<>>
    /\ cmd = none
    /\ pc = "interp"
    /\ model = <<TaggedMsg("M2"), TaggedMsg("M3"), TaggedMsg("M3")>>

\* C2: the first half of a sequence is driven to exhaustion before the second
\* half begins: at every point of the loop the leaves the interpreter will
\* reach, in its order (current effect first, then the stack from the top),
\* are the leaves still intended, where the leaves of an effect returned by
\* update come before everything that was waiting.
C2_FirstBeforeSecond ==
    Running => Flat(cmd) \o FlatStack(cmd_stack) = agenda

C2_Witness ==
    /\ pc = "view"
    /\ last.step = "suspend"
    /\ last.msg = TaggedMsg("M1")
    /\ cmd = and_then(dispatch(TaggedMsg("M3")), dispatch(TaggedMsg("M2")))
    /\ cmd_stack = <<gtfo>>
    /\ agenda = <<dispatch(TaggedMsg("M3")), dispatch(TaggedMsg("M2")), gtfo>>

\* C3 as claimed: whenever the current effect is Gtfo the run ends with Ok.
C3_Original ==
    (LoopEnded /\ cmd.type = "Gtfo") => result = Ok(Unit)

\* C3 as amended: whenever Gtfo is interpreted, that is, it is the current
\* effect and the view and the commit of the iteration have succeeded, the
\* run ends with Ok, whatever is on the continuation stack.
C3_TerminateEndsOk ==
    [][(pc = "interp" /\ cmd.type = "Gtfo") => (pc' = "exited" /\ result' = Ok(Unit))]_vars

C3_Witness ==
    /\ pc = "exited"
    /\ last.step = "gtfo"
    /\ result = Ok(Unit)
    /\ cmd_stack # <<>>
    /\ renders = MaxRenders

\* C4: main returns Ok only by interpreting Gtfo; a run that ends in view, in
\* commit, in a Deferred computation or in the event poll returns the failure.
C4_OkOnlyByGtfo ==
    pc = "exited" =>
        /\ result.ok <=> last.step = "gtfo"
        /\ last.step = "gtfo" => cmd.type = "Gtfo" /\ calls.view = 1 /\ calls.commit = 1
        /\ last.step \in {"view", "commit", "suspend"} => result = last.env
        /\ last.step = "poll" =>
             result = IF ~last.env.poll.ok THEN last.env.poll
                      ELSE IF last.env.poll.val THEN last.env.read
                      ELSE Err([kind |-> "TimedOut", text |-> "Timed out waiting for the world."])

C4_Witness ==
    /\ pc = "exited"
    /\ last.step = "commit"
    /\ ~result.ok
    /\ cmd.type = "Gtfo"

\* C5: a raw Deferred computation that fails ends the run with its failure at
\* once: the model is as it was, update is not called, and nothing is called
\* after the run has ended.
C5_RawFailureIsFatal ==
    [][/\ pc # "exited"
       /\ (pc = "interp" /\ cmd.type = "Suspend" /\ cmd.effect.kind = "raw" /\ ~last'.env.ok)
            => /\ pc' = "exited"
               /\ result' = last'.env
               /\ model' = model
               /\ calls' = [calls EXCEPT !.invoke = 1]]_vars

C5_Witness ==
    /\ pc = "exited"
    /\ last.step = "suspend"
    /\ cmd = suspend(RawEffect)
    /\ result = Err(IoError("NotFound", "entity not found"))
    /\ model # <<>>
    /\ calls = [view |-> 1, commit |-> 1, update |-> 0, poll |-> 0, invoke |-> 1]

\* C6: a Deferred effect built by Resource::fetch never ends the run: update
\* is given as_msg(Present(v)) when the computation gives v and
\* as_msg(Failed(e.to_string())) when it fails with e, and the loop goes on.
C6_FetchNeverFails ==
    [][(pc = "interp" /\ cmd.type = "Suspend" /\ cmd.effect.kind = "fetch")
            => /\ pc' = "view"
               /\ result' = result
               /\ calls'.update = 1
               /\ model' = <<last'.msg>>
               /\ last'.msg = [tag |-> cmd.effect.as_msg,
                               res |-> IF last'.env.ok
                                         THEN [state |-> "Present", value |-> last'.env.val]
                                         ELSE [state |-> "Failed", desc |-> last'.env.err.text]]]_vars

C6_Witness ==
    /\ pc = "view"
    /\ last.step = "suspend"
    /\ last.env = Err(IoError("NotFound", "entity not found"))
    /\ model = <<[tag |-> "Fetched", res |-> [state |-> "Failed", desc |-> "entity not found"]]>>
    /\ result = NoResult

\* C7: disable_raw_mode is not called while the loop runs, and on every exit
\* of the loop, success or failure, it has been called exactly once.
C7_RawModeRestored ==
    /\ pc # "exited" => raw_calls.disable = 0
    /\ LoopEnded => raw_calls = [enable |-> 1, disable |-> 1]

C7_Witness ==
    /\ LoopEnded
    /\ last.step = "poll"
    /\ ~result.ok
    /\ raw_calls.disable = 1

\* C8: a run that reaches Gtfo calls disable_raw_mode exactly once, however
\* many renders came before.
C8_OneDisableOnTerminate ==
    (pc = "exited" /\ last.step = "gtfo") =>
        /\ raw_calls.disable = 1
        /\ renders >= 1

C8_Witness ==
    /\ pc = "exited"
    /\ last.step = "gtfo"
    /\ renders = MaxRenders
    /\ raw_calls.disable = 1
    /\ raw_mode = FALSE

\* C9: an event poll that times out ends the run with the failure TimedOut:
\* update is not called and the poll is not repeated.
C9_TimeoutIsFatal ==
    [][(/\ pc = "interp" /\ cmd.type = "None" /\ cmd_stack = <<>>
        /\ last'.env.poll = Ok(FALSE))
            => /\ pc' = "exited"
               /\ result' = Err([kind |-> "TimedOut", text |-> "Timed out waiting for the world."])
               /\ model' = model
               /\ calls' = [calls EXCEPT !.poll = 1]
               /\ calls'.update = 0]_vars

C9_Witness ==
    /\ pc = "exited"
    /\ last.step = "poll"
    /\ last.env.poll = Ok(FALSE)
    /\ result = Err(TimedOut)
    /\ model # <<>>
    /\ calls.poll = 1

\* C10: with the current effect none() and an empty stack, after view and
\* commit, the loop polls exactly once, and when it then calls update, the
\* message is the polled event wrapped by Message::from.
C10_PollOnceThenUpdate ==
    [][(pc = "interp" /\ cmd.type = "None" /\ cmd_stack = <<>>)
            => /\ calls.poll = 0 /\ calls.update = 0
               /\ calls'.poll = 1
               /\ calls'.update = 1 =>
                    /\ last'.env.poll = Ok(TRUE)
                    /\ last'.env.read.ok
                    /\ last'.msg = [tag |-> "ExternalEvent", event |-> last'.env.read.val]
                    /\ model' = <<last'.msg>>]_vars

C10_Witness ==
    /\ pc = "view"
    /\ last.step = "poll"
    /\ last.env.read = Ok("Resize")
    /\ last.msg = [tag |-> "ExternalEvent", event |-> "Resize"]
    /\ calls = [view |-> 1, commit |-> 1, update |-> 1, poll |-> 1, invoke |-> 0]

(***************************************************************************)
(* C12                                                                     *)
(***************************************************************************)
OnlyView == Bump(NoCalls, "view")
ViewAndCommit == Bump(OnlyView, "commit")

\* C12: a failure of view or of commit ends the run with that failure at
\* once: after a failed view the iteration holds one view call and nothing
\* else (no commit, no Deferred, no update, no poll); after a failed commit
\* it holds one view, one commit and nothing else; the effect that was
\* current is still pending, uninterpreted.
C12_RenderFailureIsFatal ==
    /\ (last.step \in {"view", "commit"} /\ ~last.env.ok)
            => /\ pc = "exited"
               /\ result = last.env
               /\ calls = IF last.step = "view" THEN OnlyView ELSE ViewAndCommit
               /\ Flat(cmd) \o FlatStack(cmd_stack) = agenda
    /\ (pc = "exited" /\ last.step \in {"view", "commit"}) => ~last.env.ok

C12_Witness ==
    /\ pc = "exited"
    /\ last.step = "view"
    /\ ~last.env.ok
    /\ cmd.type = "Suspend"
    /\ cmd_stack # <<>>
    /\ renders > 0
    /\ calls.invoke = 0

(***************************************************************************)
(* C13                                                                     *)
(***************************************************************************)
\* C13: continuations resume last-in-first-out: a Sequence step pushes its
\* second half on top of the stack, and when the current effect is none()
\* with a non-empty stack the step pops the top, the continuation pushed most
\* recently, makes it the current effect and leaves the ones below in place;
\* the popped continuation holds exactly the effects intended to run next, so
\* an inner second half runs before the outer second half.
C13_ResumeLifo ==
    [][/\ (pc = "interp" /\ cmd.type = "AndThen")
            => /\ Len(cmd_stack') = Len(cmd_stack) + 1
               /\ cmd_stack'[Len(cmd_stack')] = cmd.this
               /\ SubSeq(cmd_stack', 1, Len(cmd_stack)) = cmd_stack
       /\ (pc = "interp" /\ cmd.type = "None" /\ cmd_stack # <<>>)
            => /\ cmd' = cmd_stack[Len(cmd_stack)]
               /\ cmd_stack' = SubSeq(cmd_stack, 1, Len(cmd_stack) - 1)
               /\ Flat(cmd') = Prefix(agenda', Len(Flat(cmd')))]_vars

\* The inner second half has been popped while the outer one still waits.
C13_Witness ==
    /\ pc = "view"
    /\ last.step = "pop"
    /\ Len(cmd_stack) = 1
    /\ cmd.type = "Dispatch"
    /\ cmd_stack[1].type = "Dispatch"
    /\ cmd # cmd_stack[1]
    /\ agenda = <<cmd, cmd_stack[1]>>

(***************************************************************************)
(* C14                                                                     *)
(***************************************************************************)
\* The one-shot computations of a kind among the effects of s.
Deferreds(s, kind) ==
    Cardinality({i \in 1..Len(s) : IF s[i].type = "Suspend" THEN s[i].effect.kind = kind ELSE FALSE})

\* The messages of m that an invocation of a computation of that kind gave.
IsFrom(msg, kind) ==
    IF kind = "raw" THEN (IF msg.tag = "Tagged" THEN msg.id = "M1" ELSE FALSE)
                    ELSE msg.tag = "Fetched"
Invoked(m, kind) == Cardinality({i \in 1..Len(m) : IsFrom(m[i], kind)})

\* C14: a Deferred computation is consumed exactly once: of the computations
\* of the initial effect, those invoked so far (one message each) and those
\* still held as the current effect or on the stack add up to the ones the
\* effect was built with, so an invoked one is no longer held anywhere and
\* none is invoked twice.
C14_DeferredConsumedOnce ==
    \A kind \in {"raw", "fetch"} :
        Invoked(model, kind) + Deferreds(Flat(cmd) \o FlatStack(cmd_stack), kind)
            = Deferreds(chain, kind)

C14_Witness ==
    /\ pc = "view"
    /\ last.step = "suspend"
    /\ Deferreds(chain, "raw") = 2
    /\ Invoked(model, "raw") = 1
    /\ Deferreds(FlatStack(cmd_stack), "raw") = 1
    /\ cmd = none

(***************************************************************************)
(* C15                                                                     *)
(***************************************************************************)
\* C15: an iteration is one view, then one commit, then the interpretation
\* of the current effect with at most one update: commit runs only right
\* after that iteration's successful view, the effect is interpreted only
\* right after that iteration's successful commit, an update is the only one
\* of its iteration and comes after its view and commit, and a push or a pop
\* completes the iteration with no update, poll or invocation in it.
C15_OneRenderPerIteration ==
    /\ pc = "commit" => (last.step = "view" /\ last.env.ok /\ calls = OnlyView)
    /\ pc = "interp" => (last.step = "commit" /\ last.env.ok /\ calls = ViewAndCommit)
    /\ (pc = "view" /\ last.step \in {"suspend", "dispatch", "poll"})
            => calls = [ViewAndCommit EXCEPT !.update = 1,
                                             !.invoke = IF last.step = "suspend" THEN 1 ELSE 0,
                                             !.poll = IF last.step = "poll" THEN 1 ELSE 0]
    /\ (pc = "view" /\ last.step \in {"and_then", "pop"}) => calls = ViewAndCommit
    /\ calls.update > 0 => (pc = "view" /\ last.step \in {"suspend", "dispatch", "poll"})

\* A push, then in the next iteration an update, each after its own render.
C15_Witness ==
    /\ pc = "view"
    /\ last.step = "dispatch"
    /\ calls = Bump(ViewAndCommit, "update")
    /\ cmd_stack # <<>>
    /\ renders >= 2

(***************************************************************************)
(* C16                                                                     *)
(***************************************************************************)
\* C16: poll_events is called only when the current effect is none() and the
\* continuation stack is empty, that is when nothing is pending: neither an
\* effect of the initial effect nor a pushed continuation is still to be
\* interpreted when an external event is read.
C16_PollOnlyWhenIdle ==
    [][calls'.poll > calls.poll
            => /\ pc = "interp"
               /\ cmd = none
               /\ cmd_stack = <<>>
               /\ agenda = <<none>>
               /\ calls'.poll = 1]_vars

\* The first event is read after a whole sequence was interpreted.
C16_Witness ==
    /\ last.step = "poll"
    /\ last.env.read.ok
    /\ calls.poll = 1
    /\ renders = MaxRenders
    /\ cmd_stack = <<>>

(***************************************************************************)
(* C17                                                                     *)
(***************************************************************************)
\* C17: the model changes only in a step that calls update, and then to what
\* update made of the message it was handed; every other step (view, commit,
\* push, pop, Terminate, a failed invocation or poll) leaves it alone.  The
\* continuation stack changes only in a Sequence step, by one push, and in a
\* none() step with a non-empty stack, by one pop.
C17_ModelAndStackFrame ==
    [][/\ model' # model
            => /\ pc = "interp"
               /\ cmd.type \in {"Suspend", "Dispatch", "None"}
               /\ calls'.update = calls.update + 1
               /\ model' = <<last'.msg>>
       /\ calls'.update = calls.update => model' = model
       /\ cmd_stack' # cmd_stack
            => /\ pc = "interp"
               /\ IF cmd.type = "AndThen"
                    THEN cmd_stack' = Append(cmd_stack, cmd.this)
                    ELSE /\ cmd.type = "None"
                         /\ cmd_stack # <<>>
                         /\ cmd_stack' = SubSeq(cmd_stack, 1, Len(cmd_stack) - 1)]_vars

\* After an update changed the model, two pushes and a pop.
C17_Witness ==
    /\ pc = "view"
    /\ last.step = "pop"
    /\ model = <<TaggedMsg("M2")>>
    /\ Len(cmd_stack) = 1

(***************************************************************************)
(* C18                                                                     *)
(***************************************************************************)
\* C18: interpreting Gtfo discards whatever is pending: the step ends the
\* run and leaves the continuations on the stack as they are, uninterpreted,
\* with no Deferred invoked and no update or poll in it, and a run that has
\* ended takes no further step, so there is no later view, commit, update,
\* poll or invocation either.
C18_GtfoDiscardsPending ==
    [][/\ pc # "exited"
       /\ (pc = "interp" /\ cmd.type = "Gtfo")
            => /\ pc' = "exited"
               /\ calls' = ViewAndCommit
               /\ UNCHANGED <<twin, model, cmd, cmd_stack, agenda, renders>>
               /\ Flat(cmd') \o FlatStack(cmd_stack') = agenda']_vars

\* gtfo().and_then(x) with x a Deferred: the run is over and x was not run.
C18_Witness ==
    /\ pc = "exited"
    /\ last.step = "gtfo"
    /\ cmd_stack = <<suspend(RawEffect)>>
    /\ agenda = <<gtfo, suspend(RawEffect)>>
    /\ calls.invoke = 0
    /\ model = <<>>

(***************************************************************************)
(* C19                                                                     *)
(***************************************************************************)
\* The effects of a chain that precede its first Gtfo and give a message.
RECURSIVE BeforeGtfo(_)
BeforeGtfo(s) ==
    IF s = <<>> THEN <<>>
    ELSE IF s[1].type = "Gtfo" THEN <<>>
    ELSE IF s[1].type = "None" THEN BeforeGtfo(Tail(s))
    ELSE <<s[1]>> \o BeforeGtfo(Tail(s))

HasGtfo(s) == \E i \in 1..Len(s) : s[i].type = "Gtfo"

\* msg is what interpreting the leaf hands to update when nothing fails.
HandsOver(leaf, msg) ==
    IF leaf.type = "Dispatch" THEN msg = leaf.msg
    ELSE \E w \in {o \in Outcomes(leaf.effect) : o.ok} : msg = Invoke(leaf.effect, w).val

Interpreted(s, m) ==
    /\ Len(m) = Len(BeforeGtfo(s))
    /\ \A i \in 1..Len(m) : HandsOver(BeforeGtfo(s)[i], m[i])

DrainDone ==
    /\ Interpreted(chain, model)
    /\ IF HasGtfo(chain)
         THEN pc = "exited" /\ last.step = "gtfo" /\ result = Ok(Unit)
         ELSE pc = "interp" /\ cmd = none /\ cmd_stack = <<>>

\* C19: when view, commit and every Deferred succeed and every update returns
\* none(), the loop started on any effect tree eventually ends at the tree's
\* first Gtfo or comes to poll with the effect none() and an empty stack, and
\* by then update has been handed exactly the messages of the effects of the
\* tree that precede the first Gtfo, in order.
C19_DrainTerminates == <>DrainDone

\* A nested tree of three effects is drained and the loop is about to poll.
C19_Witness ==
    /\ DrainDone
    /\ pc = "interp"
    /\ Len(chain) = MaxPending
    /\ Len(model) = MaxPending
    /\ model[1].tag = "Fetched"

(***************************************************************************)
(* The Editor application (main.rs): Position, EditingViewport,            *)
(* NavigationModel, KeyHistory and Editor::key_typed.  usize values are    *)
(* followed up to MaxOffset, far below the width where += would wrap.      *)
(***************************************************************************)
MaxSize   == 2
MaxOffset == 3
Horizon   == 3

saturating_sub(a, b) == IF a > b THEN a - b ELSE 0

Position(column, row) == [column |-> column, row |-> row]
move_up(p, by)   == [p EXCEPT !.row = saturating_sub(@, by)]
move_down(p, by) == [p EXCEPT !.row = @ + by]
move_left(p)     == [p EXCEPT !.column = saturating_sub(@, 1)]
move_right(p)    == [p EXCEPT !.column = @ + 1]

ScreenSize(columns, rows) == [columns |-> columns, rows |-> rows]

EditingViewport(row_offset, column_offset) ==
    [row_offset |-> row_offset, column_offset |-> column_offset]
scroll_up(v, by)    == [v EXCEPT !.row_offset = saturating_sub(@, by)]
scroll_down(v, by)  == [v EXCEPT !.row_offset = @ + by]
scroll_left(v, by)  == [v EXCEPT !.column_offset = saturating_sub(@, by)]
scroll_right(v, by) == [v EXCEPT !.column_offset = @ + by]

NavigationModel(size) ==
    [cursor |-> Position(0, 0), screen_size |-> size, viewport |-> EditingViewport(0, 0)]

is_topmost(n)    == n.cursor.row = 0
\* rows - 1 and columns - 1 are usize subtractions: at 0 a build with overflow
\* checks panics (Underflows, below) and one without wraps to usize::MAX,
\* which no cursor coordinate followed here equals.
is_bottommost(n) ==
    IF n.screen_size.rows = 0 THEN FALSE ELSE n.cursor.row = n.screen_size.rows - 1
is_leftmost(n)   == n.cursor.column = 0
is_rightmost(n)  ==
    IF n.screen_size.columns = 0 THEN FALSE ELSE n.cursor.column = n.screen_size.columns - 1

Directions == {"Up", "Down", "Left", "Right", "PageUp", "PageDown"}
is_recognized(direction) == direction \in Directions

move_intended(n, direction) ==
    CASE direction = "Up" ->
            IF is_topmost(n) THEN [n EXCEPT !.viewport = scroll_up(@, 1)]
                             ELSE [n EXCEPT !.cursor = move_up(@, 1)]
      [] direction = "Down" ->
            IF is_bottommost(n) THEN [n EXCEPT !.viewport = scroll_down(@, 1)]
                                ELSE [n EXCEPT !.cursor = move_down(@, 1)]
      [] direction = "Left" ->
            IF is_leftmost(n) THEN [n EXCEPT !.viewport = scroll_left(@, 1)]
                              ELSE [n EXCEPT !.cursor = move_left(@)]
      [] direction = "Right" ->
            IF is_rightmost(n) THEN [n EXCEPT !.viewport = scroll_right(@, 1)]
                               ELSE [n EXCEPT !.cursor = move_right(@)]
      [] direction = "PageUp" ->
            LET page      == n.screen_size.rows
                scroll_by == saturating_sub(page, n.cursor.row)
            IN  [n EXCEPT !.cursor = move_up(@, page),
                          !.viewport = scroll_up(@, scroll_by)]
      [] direction = "PageDown" ->
            LET page      == n.screen_size.rows
                scroll_by == n.cursor.row
                move_by   == saturating_sub(page, n.cursor.row)
            IN  [n EXCEPT !.viewport = scroll_down(@, scroll_by),
                          !.cursor = move_down(@, move_by)]

KeyEvent(code, modifiers) == [code |-> code, modifiers |-> modifiers]

\* KeyHistory::record
record(events, event) ==
    LET pushed == Append(events, event)
    IN  IF Len(pushed) > Horizon THEN Tail(pushed) ELSE pushed

Editor(size) ==
    [buffer_name |-> "Unnamed", navigation |-> NavigationModel(size), key_history |-> <<>>]

\* Editor::key_typed and Editor::record_key_event: the editor after the key
\* and the effect returned.
key_typed(ed, key) ==
    IF key.code = "q" /\ key.modifiers = "CONTROL"
      THEN [editor |-> ed, cmd |-> gtfo]
    ELSE IF key.modifiers = "NONE" /\ is_recognized(key.code)
      THEN [editor |-> [ed EXCEPT !.navigation = move_intended(@, key.code)], cmd |-> none]
    ELSE [editor |-> [ed EXCEPT !.key_history = record(@, key)], cmd |-> none]

\* The editor's coordinates are followed while they stay within MaxOffset.
Followed(n) ==
    /\ n.cursor.row <= MaxOffset /\ n.cursor.column <= MaxOffset
    /\ n.viewport.row_offset <= MaxOffset /\ n.viewport.column_offset <= MaxOffset

NavigationKeys == {KeyEvent(d, "NONE") : d \in Directions}
OtherKeys == {KeyEvent("Up", "SHIFT")}

\* An Editor whose screen size is known, cursor at (0, 0), before any key.
InitEditor ==
    /\ pc = "keys"
    /\ model \in {Editor(ScreenSize(c, r)) : c \in 1..MaxSize, r \in 1..MaxSize}
    /\ cmd = none
    /\ cmd_stack = <<>>
    /\ result = NoResult
    /\ raw_mode = TRUE
    /\ calls = NoCalls
    /\ raw_calls = [enable |-> 1, disable |-> 0]
    /\ renders = 0
    /\ last = Step("start", Ok(Unit), NoMsg)
    /\ agenda = <<>>
    /\ chain = <<>>
    /\ twin = NoTwin

\* Editor::update on ExternalEvent(Key(key)): event_occurred, key_typed.
KeyTyped(Keys) ==
    /\ pc = "keys"
    /\ \E key \in Keys :
        LET r == key_typed(model, key) IN
        /\ Followed(r.editor.navigation)
        /\ model' = r.editor
        /\ cmd' = r.cmd
        /\ last' = Step("key", Ok(Unit), key)
    /\ UNCHANGED <<twin, pc, cmd_stack, result, raw_mode, calls, raw_calls, renders, agenda, chain>>

NextEditor == KeyTyped(NavigationKeys \cup OtherKeys)

SpecEditor == InitEditor /\ [][NextEditor]_vars

(***************************************************************************)
(* C20                                                                     *)
(***************************************************************************)
\* C20: in the Editor, with a screen of at least one row and one column and
\* the cursor starting at (0, 0), after any sequence of navigation keys the
\* cursor is on the screen: cursor.row <= screen_size.rows - 1 and
\* cursor.column <= screen_size.columns - 1.
C20_CursorOnScreen ==
    pc = "keys" =>
        /\ model.navigation.cursor.row <= model.navigation.screen_size.rows - 1
        /\ model.navigation.cursor.column <= model.navigation.screen_size.columns - 1

(***************************************************************************)
(* C11: two runs of the program, one after the other, under the same       *)
(* update function: the first from init returning a.and_then(none()), the  *)
(* second from init returning a.  Each is followed until it ends or is     *)
(* about to read its first external event.                                 *)
(***************************************************************************)
\* The update function of the two runs: it answers the message M2 with the
\* effect twin.r and every other message with none().
PairLeaves  == {none, gtfo} \cup {dispatch(TaggedMsg(t)) : t \in Tags}
PairAnswers == Effects(ChainsOver(PairLeaves, MaxPending - 1))[MaxPending - 1]

UpdateOfPair ==
    [n \in 0..MaxPending |->
        {e \in {IF cmd.type = "Dispatch" /\ cmd.msg = TaggedMsg("M2")
                  THEN twin.r ELSE <<<<none>>, none>>} : Len(e[1]) <= n}]

\* What init returns in the first and in the second run.
InitOfPair ==
    [n \in 0..MaxPending |->
        {IF twin.phase = 1
           THEN <<Append(twin.a[1], none), and_then(twin.a[2], none)>>
           ELSE twin.a}]

InitPair ==
    /\ pc = "attach"
    /\ model = <<>>
    /\ cmd = none
    /\ cmd_stack = <<>>
    /\ result = NoResult
    /\ raw_mode = FALSE
    /\ calls = NoCalls
    /\ raw_calls = [enable |-> 0, disable |-> 0]
    /\ renders = 0
    /\ last = Step("start", Ok(Unit), NoMsg)
    /\ agenda = <<>>
    /\ chain = <<>>
    /\ twin \in {[phase |-> 1, a |-> a, r |-> r, first |-> NoTwin] :
                    a \in AnyEffect[MaxPending - 1], r \in PairAnswers}

\* The run has ended, or has drained its effects and would now poll.
Drained == pc = "interp" /\ cmd = none /\ cmd_stack = <<>>
Settled == pc = "exited" \/ Drained

\* Where a settled run stands: its exit result, or its continuation.
Standing ==
    IF pc = "exited"
      THEN [model |-> model, result |-> result]
      ELSE [model |-> model, cmd |-> cmd, cmd_stack |-> cmd_stack]

\* The program is started again, for the second run.
SecondRun ==
    /\ twin.phase = 1
    /\ Settled
    /\ twin' = [twin EXCEPT !.phase = 2, !.first = Standing]
    /\ pc' = "attach"
    /\ model' = <<>>
    /\ cmd' = none
    /\ cmd_stack' = <<>>
    /\ result' = NoResult
    /\ raw_mode' = FALSE
    /\ calls' = NoCalls
    /\ raw_calls' = [enable |-> 0, disable |-> 0]
    /\ renders' = 0
    /\ last' = Step("start", Ok(Unit), NoMsg)
    /\ agenda' = <<>>
    /\ chain' = <<>>

NextPair ==
    \/ Attach({})
    \/ EnterRawMode({})
    \/ AppInit(InitOfPair, TRUE)
    \/ View({})
    \/ Commit({})
    \/ InterpSuspend(EmptyOnly, {}, TRUE)
    \/ InterpDispatch(UpdateOfPair, TRUE)
    \/ InterpGtfo
    \/ InterpAndThen
    \/ InterpNonePop
    \/ SecondRun

SpecPair == InitPair /\ [][NextPair]_vars

\* C11: a.and_then(none()) is interpreted as a alone is: under the same
\* update function, when the run from a settles (it ends, or is about to
\* read an event), update has been handed the same messages in the same
\* order as in the run from a.and_then(none()), and the two runs stand at
\* the same exit result or at the same current effect and stack.
C11_AndThenNoneIsNeutral ==
    (twin.phase = 2 /\ Settled) => twin.first = Standing

\* Compared: two runs in which update answered with a sequence and the
\* messages of a and of that sequence were handed over.
C11_Witness ==
    /\ twin.phase = 2
    /\ Drained
    /\ twin.a[2].type = "AndThen"
    /\ twin.r[2].type = "AndThen"
    /\ Len(model) = MaxPending
    /\ twin.first = Standing

(***************************************************************************)
(* The Editor run by run_automat: enum Message, Editor::update,            *)
(* Editor::event_occurred, Editor::init, and the arms of the loop that     *)
(* the Editor's effects reach.  The Editor builds no Dispatch and no       *)
(* AndThen, so the stack stays empty and those arms are not taken.         *)
(***************************************************************************)
SetBufferName(name) == [tag |-> "SetBufferName", name |-> name]
SizedChanged(size)  == [tag |-> "SizedChanged", size |-> size]

\* event::Event
KeyPressed(key) == [type |-> "Key", key |-> key]
Resize(width, height) == [type |-> "Resize", width |-> width, height |-> height]
FocusGained == [type |-> "FocusGained"]

\* NavigationModel::screen_size_changed (it returns none())
screen_size_changed(n, new_size) == [n EXCEPT !.screen_size = new_size]

\* impl From<(u16, u16)> for ScreenSize
ScreenSizeFrom(value) == ScreenSize(value[1], value[2])

event_occurred_any_q(ed, event) ==
    IF event.type = "Key"
      THEN (IF event.key.code = "q"
              THEN [editor |-> ed, cmd |-> gtfo]
              ELSE key_typed(ed, event.key))
    ELSE IF event.type = "Resize"
      THEN [editor |-> [ed EXCEPT !.navigation =
                            screen_size_changed(@, ScreenSizeFrom(<<event.width, event.height>>))],
            cmd |-> none]
    ELSE [editor |-> ed, cmd |-> none]

event_occurred(ed, event) ==
    IF event.type = "Key"
      THEN key_typed(ed, event.key)
    ELSE IF event.type = "Resize"
      THEN [editor |-> [ed EXCEPT !.navigation =
                            screen_size_changed(@, ScreenSizeFrom(<<event.width, event.height>>))],
            cmd |-> none]
    ELSE [editor |-> ed, cmd |-> none]

\* Editor::update: the editor after the message and the effect returned.
EditorUpdate(ed, message) ==
    IF message.tag = "SetBufferName"
      THEN [editor |-> [ed EXCEPT !.buffer_name = message.name], cmd |-> none]
    ELSE IF message.tag = "ExternalEvent"
      THEN event_occurred(ed, message.event)
    ELSE [editor |-> [ed EXCEPT !.navigation = screen_size_changed(@, message.size)],
          cmd |-> none]

\* The subtraction of is_bottommost or is_rightmost underflows in this update.
Underflows(ed, message) ==
    IF message.tag # "ExternalEvent" THEN FALSE
    ELSE IF message.event.type # "Key" THEN FALSE
    ELSE /\ message.event.key.modifiers = "NONE"
         /\ \/ message.event.key.code = "Down" /\ ed.navigation.screen_size.rows = 0
            \/ message.event.key.code = "Right" /\ ed.navigation.screen_size.columns = 0

\* ScreenSize::request: a one-shot computation that reads the terminal's size
\* and gives it as SizedChanged, or fails as terminal::size() fails.
SizeEffect == [kind |-> "size"]
ScreenSizeRequest == suspend(SizeEffect)

\* The sizes the terminal reports, by request and by Resize events.
AppSizes == {<<0, 0>>, <<MaxSize, MaxSize>>}
SizeOutcomes == {Ok(s) : s \in AppSizes} \cup {Err(e) : e \in IoErrors}

CtrlQ == KeyEvent("q", "CONTROL")

\* The keys typed in the runs followed, and all the keys update is asked about.
AppKeys == {CtrlQ, KeyEvent("q", "NONE"), KeyEvent("x", "CONTROL"),
            KeyEvent("Down", "NONE"), KeyEvent("PageDown", "NONE")}
AllKeys == {KeyEvent(c, m) : c \in Directions \cup {"q", "Q", "x"},
                             m \in {"NONE", "CONTROL", "SHIFT", "CONTROL|SHIFT"}}

AppEvents == {KeyPressed(k) : k \in AppKeys}
             \cup {Resize(s[1], s[2]) : s \in AppSizes} \cup {FocusGained}

AppWorlds == {[poll |-> Ok(TRUE), read |-> r] : r \in {Ok(ev) : ev \in AppEvents} \cup {Err(e) : e \in IoErrors}}
             \cup {[poll |-> Ok(FALSE), read |-> Err(e)] : e \in IoErrors}
             \cup {[poll |-> Err(e), read |-> Err(e)] : e \in IoErrors}

\* A panic unwinds main: the Screen is dropped and main returns nothing.
Panic ==
    /\ pc' = "panicked"
    /\ \E d \in DisableOutcomes : Drop(raw_calls, d)
    /\ UNCHANGED result

\* App::init() for the Editor: Editor::default() reads src/main.rs and
\* unwraps, then ScreenSize::request().
EditorInit ==
    /\ pc = "init"
    /\ \E file \in {Ok(Unit)} \cup {Err(e) : e \in IoErrors} :
        /\ last' = Step("init", file, NoMsg)
        /\ IF file.ok
             THEN /\ model' = Editor(ScreenSize(0, 0))
                  /\ cmd' = ScreenSizeRequest
                  /\ agenda' = <<ScreenSizeRequest>>
                  /\ pc' = "view"
                  /\ UNCHANGED <<result, raw_mode, raw_calls>>
             ELSE /\ Panic
                  /\ UNCHANGED <<model, cmd, agenda>>
    /\ UNCHANGED <<cmd_stack, calls, renders, chain, twin>>

\* cmd = model.update(&message) for the Editor.
EditorCall(message) ==
    \/ /\ Underflows(model, message)
       /\ Panic
       /\ UNCHANGED <<model, cmd, agenda>>
    \/ LET r == EditorUpdate(model, message) IN
       /\ Followed(r.editor.navigation)
       /\ model' = r.editor
       /\ cmd' = r.cmd
       /\ agenda' = <<r.cmd>>
       /\ pc' = "view"
       /\ UNCHANGED <<result, raw_mode, raw_calls>>

\* Cmd::Suspend(effect) => model.update(&effect()?)
EditorInterpSuspend(Errors) ==
    /\ pc = "interp"
    /\ cmd.type = "Suspend"
    /\ \E w \in {o \in SizeOutcomes : Admits(o, Errors)} :
        IF w.ok
          THEN /\ EditorCall(SizedChanged(ScreenSizeFrom(w.val)))
               /\ last' = Step("suspend", w, SizedChanged(ScreenSizeFrom(w.val)))
               /\ calls' = Bump(Bump(calls, "invoke"), "update")
          ELSE /\ Return(w, raw_calls)
               /\ last' = Step("suspend", w, NoMsg)
               /\ calls' = Bump(calls, "invoke")
               /\ UNCHANGED <<model, cmd, agenda>>
    /\ UNCHANGED <<cmd_stack, renders, chain, twin>>

\* Cmd::None with an empty stack => model.update(&self.poll_events().map(&App::Msg::from)?)
EditorInterpNonePoll(Errors) ==
    /\ pc = "interp"
    /\ cmd.type = "None"
    /\ cmd_stack = <<>>
    /\ \E w \in AppWorlds :
        LET r == poll_events(w) IN
        /\ Admits(r, Errors)
        /\ IF r.ok
             THEN /\ EditorCall(MsgFrom(r.val))
                  /\ last' = Step("poll", w, MsgFrom(r.val))
                  /\ calls' = Bump(Bump(calls, "poll"), "update")
             ELSE /\ Return(r, raw_calls)
                  /\ last' = Step("poll", w, NoMsg)
                  /\ calls' = Bump(calls, "poll")
                  /\ UNCHANGED <<model, cmd, agenda>>
    /\ UNCHANGED <<cmd_stack, renders, chain, twin>>

NextApp ==
    \/ Attach(IoErrors)
    \/ EnterRawMode(IoErrors)
    \/ EditorInit
    \/ View(IoErrors)
    \/ Commit(IoErrors)
    \/ EditorInterpSuspend(IoErrors)
    \/ InterpGtfo
    \/ EditorInterpNonePoll(AllErrors)

SpecApp == Init /\ [][NextApp]_vars

(***************************************************************************)
(* C21                                                                     *)
(***************************************************************************)
AppRunning == pc \in {"view", "commit", "interp"}

QuitMessage == MsgFrom(KeyPressed(CtrlQ))

\* The messages Editor::update is asked about in every state of a run.
AllMessages ==
    {MsgFrom(KeyPressed(k)) : k \in AllKeys}
    \cup {MsgFrom(Resize(s[1], s[2])) : s \in AppSizes}
    \cup {MsgFrom(FocusGained), SetBufferName("other")}
    \cup {SizedChanged(ScreenSizeFrom(s)) : s \in AppSizes}

\* Of all messages, update answers Gtfo to Ctrl-q alone, and leaves the
\* editor as it is when it does.
QuitsOnCtrlQAlone ==
    AppRunning =>
        \A m \in AllMessages :
            LET r == EditorUpdate(model, m) IN
            /\ (r.cmd = gtfo) <=> (m = QuitMessage)
            /\ (m = QuitMessage) => (r.editor = model)

\* C21: in the Editor run by run_automat, update returns Gtfo for the key
\* q with exactly the CONTROL modifier and for no other message or event,
\* and leaves navigation and key history unchanged when it does; once Gtfo
\* is the current effect the next iteration only views, commits and ends
\* the run with Ok when both succeed; and a run ends with Ok only by that
\* Gtfo, so never without that key.
C21_CtrlQEndsTheRun ==
    /\ []QuitsOnCtrlQAlone
    /\ [][/\ calls'.update > calls.update
               => /\ (cmd' = gtfo) <=> (last'.msg = QuitMessage)
                  /\ (last'.msg = QuitMessage) => (model' = model /\ pc' = "view")
          /\ (cmd' = gtfo /\ cmd # gtfo)
               => (last'.step = "poll" /\ last'.msg = QuitMessage)
          /\ (AppRunning /\ cmd = gtfo)
               => /\ last'.step = (IF pc = "view" THEN "view"
                                   ELSE IF pc = "commit" THEN "commit" ELSE "gtfo")
                  /\ UNCHANGED <<model, cmd>>
                  /\ calls'.update = 0 /\ calls'.poll = 0
                  /\ IF last'.env.ok
                       THEN /\ pc' = (IF pc = "view" THEN "commit"
                                      ELSE IF pc = "commit" THEN "interp" ELSE "exited")
                            /\ pc = "interp" => result' = Ok(Unit)
                       ELSE pc' = "exited" /\ result' = last'.env
          /\ (result' = Ok(Unit) /\ result # Ok(Unit))
               => (pc = "interp" /\ cmd = gtfo /\ pc' = "exited")]_vars

\* After keys that moved the cursor and keys that were recorded, Ctrl-q was
\* typed and the run has ended with Ok.
C21_Witness ==
    /\ pc = "exited"
    /\ result = Ok(Unit)
    /\ last.step = "gtfo"
    /\ cmd = gtfo
    /\ Len(model.key_history) = Horizon
    /\ model.navigation.cursor.row > 0
    /\ model.navigation.screen_size.rows = MaxSize

====
